---- MODULE Spec2Model ----
(***************************************************************************)
(* Model of the knapsack choice-distribution package:                      *)
(*   src/src/knapsack_distribution/knapsack_item.py      (KnapsackItem)    *)
(*   src/src/knapsack_distribution/knapsack_instance.py  (KnapsackInstance)*)
(*                                                                         *)
(* Conventions                                                             *)
(*  - An item object is named by its knapsack_item_id; hash(item) is the   *)
(*    digest of "value,weight,id" and is modelled by that triple.          *)
(*  - A node's hash is the digest of the string built in create(); it is   *)
(*    modelled by the tuple of the string's parts (digest collisions are   *)
(*    not modelled).                                                       *)
(*  - Python floats are modelled by exact rationals <<num, den>>; rounding  *)
(*    is not modelled, so a residual mass that is a rounding error in the  *)
(*    program is exactly 0 here, and math.isclose(sum, 1.0) is sum = 1.    *)
(*  - None is <<>> and a present optional value x is <<x>>.                *)
(***************************************************************************)
EXTENDS Integers, Sequences, FiniteSets, TLC

VARIABLES
    knapsack_items_count,   \* KnapsackItem._knapsack_items_count
    items,                  \* the KnapsackItem objects, by knapsack_item_id
    instance_by_hash,       \* KnapsackInstance.instance_by_hash
    distribution_by_hash,   \* KnapsackInstance.distribution_by_hash
    allocated,              \* hashes of the nodes __init__ was entered for, in order
    calls,                  \* number of distribution queries the client has made
    last,                   \* the latest call and what it gave back to its caller
    callers                 \* the threads inside KnapsackInstance.create, by position

vars == <<knapsack_items_count, items, instance_by_hash, distribution_by_hash,
          allocated, calls, last, callers>>

----------------------------------------------------------------------------
(* Bounds of the explored inputs *)

MaxItems == 3
MaxValue == 1
MaxWeight == 2

----------------------------------------------------------------------------
(* Generic helpers *)

None == <<>>
Some(x) == <<x>>
IsNone(o) == o = <<>>

Range(s) == {s[i] : i \in DOMAIN s}

\* the injective sequences over the set S (lists of distinct objects)
InjSeqs(S) ==
    UNION {{s \in [1..n -> S] : \A i, j \in 1..n : i # j => s[i] # s[j]} :
           n \in 0..Cardinality(S)}

\* the lists of distinct elements of S in ascending order
RECURSIVE SetToSeq(_)
SetToSeq(S) ==
    IF S = {} THEN <<>>
    ELSE LET m == CHOOSE x \in S : \A y \in S : x <= y
         IN  <<m>> \o SetToSeq(S \ {m})

AscSeqs(S) == {SetToSeq(T) : T \in SUBSET S}

\* l[:i] + l[i+1:] for the 1-based position i
Without(l, i) == [j \in 1..(Len(l) - 1) |-> IF j < i THEN l[j] ELSE l[j + 1]]

----------------------------------------------------------------------------
(* KnapsackItem *)

value(i) == items[i].value
weight(i) == items[i].weight

\* hash(item): the digest of str(value) + "," + str(weight) + "," + str(id)
item_hash(i) == <<items[i].value, items[i].weight, i>>

\* repr(item): 'KnapsackItem(value = v, weight = w)', the id is not part of it
item_repr(i) == <<items[i].value, items[i].weight>>

\* self._density == other.density, on value / weight
density_eq(a, b) == value(a) * weight(b) = value(b) * weight(a)
density_gt(a, b) == value(a) * weight(b) > value(b) * weight(a)

\* KnapsackItem.__eq__
item_eq(a, b) == density_eq(a, b) /\ value(a) = value(b)

\* a comparison by density alone, without the value as second criterion
item_gt_by_density_only(a, b) == density_gt(a, b)

\* KnapsackItem.__gt__
item_gt(a, b) == density_gt(a, b) \/ (density_eq(a, b) /\ value(a) > value(b))

\* the rule without its third disjunct: what set_dominance would cache if an
\* earlier duplicate did not dominate a later one
dominance_condition_no_tie_break(c, self) ==
    \/ (value(c) > value(self) /\ weight(c) <= weight(self))
    \/ (value(c) >= value(self) /\ weight(c) < weight(self))

\* the condition of the loop body of set_dominance: knapsack_item c dominates self
dominance_condition(c, self) ==
    \/ (value(c) > value(self) /\ weight(c) <= weight(self))
    \/ (value(c) >= value(self) /\ weight(c) < weight(self))
    \/ (item_eq(c, self) /\ c < self)

\* a validation that also rejects the value 0
KnapsackItem_fault_rejects_zero(v, w) ==
    IF v <= 0 THEN "ValueError"
    ELSE IF w <= 0 THEN "ValueError"
    ELSE "none"

\* KnapsackItem.__init__: the outcome for the arguments (v, w)
KnapsackItem_fault(v, w) ==
    IF v < 0 THEN "ValueError"
    ELSE IF w <= 0 THEN "ValueError"
    ELSE "none"

KnapsackItem_new(v, w) == [value |-> v, weight |-> w, dominating |-> None]

\* set_dominance(self, knapsack_items): the fault it raises, if any
set_dominance_fault(self, cands) ==
    IF item_hash(self) \in {item_hash(cands[j]) : j \in DOMAIN cands}
    THEN "ValueError" ELSE "none"

\* set_dominance(self, knapsack_items): the set it caches
RECURSIVE set_dominance_loop(_, _, _, _)
set_dominance_loop(self, cands, j, acc) ==
    IF j > Len(cands) THEN acc
    ELSE set_dominance_loop(self, cands, j + 1,
            IF dominance_condition(cands[j], self)
            THEN acc \cup {item_hash(cands[j])} ELSE acc)

\* set_dominance that returns without caching anything
set_dominance_caches_nothing(pool, self, cands) == pool

set_dominance(pool, self, cands) ==
    [pool EXCEPT ![self].dominating = Some(set_dominance_loop(self, cands, 1, {}))]

\* check_dominance(self, knapsack_items) on the pool
check_dominance_fault(pool, self) ==
    IF IsNone(pool[self].dominating) THEN "RuntimeError" ELSE "none"

RECURSIVE check_dominance_loop(_, _, _, _)
check_dominance_loop(pool, self, cands, j) ==
    IF j > Len(cands) THEN FALSE
    ELSE IF item_hash(cands[j]) \in pool[self].dominating[1] THEN TRUE
    ELSE check_dominance_loop(pool, self, cands, j + 1)

check_dominance(pool, self, cands) == check_dominance_loop(pool, self, cands, 1)

\* for i, knapsack_item in enumerate(l): knapsack_item.set_dominance(l[:i] + l[i+1:])
RECURSIVE set_dominance_all(_, _, _)
set_dominance_all(pool, l, i) ==
    IF i > Len(l) THEN pool
    ELSE set_dominance_all(set_dominance(pool, l[i], Without(l, i)), l, i + 1)

----------------------------------------------------------------------------
(* KnapsackInstance: the structural key *)

\* sorted(l): Python's stable sort; x < y is answered by y.__gt__(x)
RECURSIVE insert_sorted(_, _)
insert_sorted(sorted_l, x) ==
    IF sorted_l = <<>> THEN <<x>>
    ELSE IF item_gt(sorted_l[Len(sorted_l)], x)
         THEN insert_sorted(SubSeq(sorted_l, 1, Len(sorted_l) - 1), x)
                  \o <<sorted_l[Len(sorted_l)]>>
         ELSE sorted_l \o <<x>>

RECURSIVE sorted(_)
sorted(l) ==
    IF l = <<>> THEN <<>>
    ELSE insert_sorted(sorted(SubSeq(l, 1, Len(l) - 1)), l[Len(l)])

\* hash(None)
hash_None == None

\* the hash create() computes: the digest of
\*   str(sorted(knapsack_items)) , capacity , standing_value ,
\*   str([hash(i) for i in sorted(standing_knapsack_items)]) , str(hash(master))
knapsack_hash(its, cap, sv, st, master) ==
    << [j \in DOMAIN its |-> item_repr(sorted(its)[j])],
       cap,
       sv,
       [j \in DOMAIN st |-> item_hash(sorted(st)[j])],
       IF IsNone(master) THEN hash_None ELSE master[1] >>

----------------------------------------------------------------------------
(* KnapsackInstance: construction of the search graph *)

\* The state a construction threads through its recursive calls:
\*   pool  the KnapsackItem objects (set_dominance writes them)
\*   reg   instance_by_hash
\*   alloc the hashes __init__ was entered for, in order
\* Every call gives back [S, fault, ret]: the state, the fault raised ("none" if
\* it returned) and the returned value.

Max(S) == CHOOSE x \in S : \A y \in S : y <= x

\* self._non_dominated_items
non_dominated_items(pool, its) ==
    {item_hash(its[i]) : i \in {j \in DOMAIN its :
                                  ~check_dominance(pool, its[j], Without(its, j))}}

\* self._included_dominated_items
included_dominated_items(pool, its, st) ==
    SelectSeq(st, LAMBDA x : check_dominance(pool, x, its))

\* self._terminal_nodes, from the built children
terminal_nodes(reg, children) ==
    UNION {IF reg[children[j][2]].is_terminal_node
           THEN {children[j][2]}
           ELSE reg[children[j][2]].terminal_nodes : j \in DOMAIN children}

Min(S) == CHOOSE x \in S : \A y \in S : x <= y

\* the stored value taken as the least of the children's values instead of the
\* greatest
optimal_terminal_node_value_least(reg, sv, children) ==
    IF children = None THEN sv
    ELSE Min({reg[children[j][2]].optimal_terminal_node_value : j \in DOMAIN children})

\* self._optimal_terminal_node_value, from the built children
optimal_terminal_node_value(reg, sv, children) ==
    IF children = None THEN sv
    ELSE Max({reg[children[j][2]].optimal_terminal_node_value : j \in DOMAIN children})

\* self._optimal_terminal_nodes, from the built children
optimal_terminal_nodes(reg, opt, children) ==
    UNION {IF reg[children[j][2]].optimal_terminal_node_value = opt
           THEN IF reg[children[j][2]].is_terminal_node
                THEN {children[j][2]}
                ELSE reg[children[j][2]].optimal_terminal_nodes
           ELSE {} : j \in DOMAIN children}

\* the internal-consistency check in the loop over the children
optimal_value_fault(reg, opt, children) ==
    IF \E j \in DOMAIN children :
            reg[children[j][2]].optimal_terminal_node_value > opt
    THEN "ValueError" ELSE "none"

RECURSIVE create(_, _, _, _, _, _)
RECURSIVE KnapsackInstance_init(_, _, _, _, _, _, _)
RECURSIVE create_child_nodes_loop(_, _, _, _, _, _, _, _)

\* create without the registry lookup: every call constructs
create_without_lookup(S, its, cap, sv, st, master) ==
    KnapsackInstance_init(S, its, cap, knapsack_hash(its, cap, sv, st, master),
                          sv, st, master)

\* KnapsackInstance.create
create(S, its, cap, sv, st, master) ==
    LET h == knapsack_hash(its, cap, sv, st, master)
    IN  IF h \in DOMAIN S.reg
        THEN [S |-> S, fault |-> "none", ret |-> h]
        ELSE KnapsackInstance_init(S, its, cap, h, sv, st, master)

\* a loop that leaves the added item in the child's eligible list
RECURSIVE create_child_nodes_loop_keeping_item(_, _, _, _, _, _, _, _)
create_child_nodes_loop_keeping_item(S, its, cap, h, sv, st, master, ia) ==
    LET i == ia[1]
        acc == ia[2]
    IN  IF i > Len(its) THEN [S |-> S, fault |-> "none", ret |-> acc]
        ELSE IF cap - weight(its[i]) >= 0
        THEN LET c == create(S, its, cap - weight(its[i]),
                             sv + value(its[i]), st \o <<its[i]>>,
                             IF IsNone(master) THEN Some(h) ELSE master)
             IN  IF c.fault # "none" THEN c
                 ELSE create_child_nodes_loop_keeping_item(
                          c.S, its, cap, h, sv, st, master,
                          <<i + 1, acc \o << <<its[i], c.ret>> >> >>)
        ELSE create_child_nodes_loop_keeping_item(S, its, cap, h, sv, st, master,
                                                  <<i + 1, acc>>)

\* a loop that does not add the item's value to the child's standing value
RECURSIVE create_child_nodes_loop_dropping_value(_, _, _, _, _, _, _, _)
create_child_nodes_loop_dropping_value(S, its, cap, h, sv, st, master, ia) ==
    LET i == ia[1]
        acc == ia[2]
    IN  IF i > Len(its) THEN [S |-> S, fault |-> "none", ret |-> acc]
        ELSE IF cap - weight(its[i]) >= 0
        THEN LET c == create(S, Without(its, i), cap - weight(its[i]),
                             sv, st \o <<its[i]>>,
                             IF IsNone(master) THEN Some(h) ELSE master)
             IN  IF c.fault # "none" THEN c
                 ELSE create_child_nodes_loop_dropping_value(
                          c.S, its, cap, h, sv, st, master,
                          <<i + 1, acc \o << <<its[i], c.ret>> >> >>)
        ELSE create_child_nodes_loop_dropping_value(S, its, cap, h, sv, st, master,
                                                    <<i + 1, acc>>)

\* the loop of _create_child_nodes from position i on; acc is child_nodes so far
create_child_nodes_loop(S, its, cap, h, sv, st, master, ia) ==
    LET i == ia[1]
        acc == ia[2]
    IN  IF i > Len(its) THEN [S |-> S, fault |-> "none", ret |-> acc]
        ELSE IF cap - weight(its[i]) >= 0
        THEN LET c == create(S, Without(its, i), cap - weight(its[i]),
                             sv + value(its[i]), st \o <<its[i]>>,
                             IF IsNone(master) THEN Some(h) ELSE master)
             IN  IF c.fault # "none" THEN c
                 ELSE create_child_nodes_loop(c.S, its, cap, h, sv, st, master,
                          <<i + 1, acc \o << <<its[i], c.ret>> >> >>)
        ELSE create_child_nodes_loop(S, its, cap, h, sv, st, master, <<i + 1, acc>>)

\* child creation without the rule for a single remaining item
create_child_nodes_for_single_item(S, its, cap, h, sv, st, master) ==
    create_child_nodes_loop(S, its, cap, h, sv, st, master, <<1, <<>> >>)

\* KnapsackInstance._create_child_nodes: None (<<>>) or the non-empty child list
create_child_nodes(S, its, cap, h, sv, st, master) ==
    IF Len(its) = 1 THEN [S |-> S, fault |-> "none", ret |-> None]
    ELSE create_child_nodes_loop(S, its, cap, h, sv, st, master, <<1, <<>> >>)

\* KnapsackInstance.__init__
KnapsackInstance_init(S, its, cap, h, sv, st, master) ==
    LET pool1 == IF IsNone(master) THEN set_dominance_all(S.pool, its, 1) ELSE S.pool
        S1 == [S EXCEPT !.pool = pool1, !.alloc = Append(@, h)]
    IN  IF \E x \in Range(its) \cup Range(st) : check_dominance_fault(pool1, x) # "none"
        THEN [S |-> S1, fault |-> "RuntimeError", ret |-> None]
        ELSE
        LET cn == create_child_nodes(S1, its, cap, h, sv, st, master)
            children == cn.ret
            reg == cn.S.reg
            opt == optimal_terminal_node_value(reg, sv, children)
            node == [knapsack_items |-> its,
                     knapsack_capacity |-> cap,
                     standing_value |-> sv,
                     standing_knapsack_items |-> st,
                     master_knapsack |-> master,
                     non_dominated_items |-> non_dominated_items(pool1, its),
                     included_dominated_items |->
                         included_dominated_items(pool1, its, st),
                     is_dominated |->
                         Len(included_dominated_items(pool1, its, st)) >= 1,
                     child_nodes |-> children,
                     is_terminal_node |-> (children = None),
                     terminal_nodes |-> terminal_nodes(reg, children),
                     optimal_terminal_node_value |-> opt,
                     optimal_terminal_nodes |->
                         optimal_terminal_nodes(reg, opt, children)]
        IN  IF cn.fault # "none" THEN cn
            ELSE IF optimal_value_fault(reg, opt, children) # "none"
            THEN [S |-> cn.S, fault |-> optimal_value_fault(reg, opt, children),
                  ret |-> None]
            ELSE [S |-> [cn.S EXCEPT !.reg = (h :> node) @@ cn.S.reg],
                  fault |-> "none", ret |-> h]

----------------------------------------------------------------------------
(* Floats as exact rationals <<numerator, denominator>>, denominator > 0 *)

Abs(x) == IF x < 0 THEN -x ELSE x

RECURSIVE GCD(_, _)
GCD(a, b) == IF b = 0 THEN a ELSE GCD(b, a % b)

Norm(n, d) ==
    LET g == GCD(Abs(n), d)
    IN  <<n \div g, d \div g>>

Zero == <<0, 1>>
Half == <<1, 2>>
One == <<1, 1>>
Rat(n) == <<n, 1>>

RAdd(a, b) == Norm(a[1] * b[2] + b[1] * a[2], a[2] * b[2])
RSub(a, b) == Norm(a[1] * b[2] - b[1] * a[2], a[2] * b[2])
RMul(a, b) == Norm(a[1] * b[1], a[2] * b[2])
\* a / b for b # 0 (Python raises ZeroDivisionError for b = 0: see the callers)
RDiv(a, b) ==
    IF b[1] > 0 THEN Norm(a[1] * b[2], a[2] * b[1])
    ELSE Norm(-(a[1] * b[2]), -(a[2] * b[1]))
RLeq(a, b) == a[1] * b[2] <= b[1] * a[2]
RLess(a, b) == a[1] * b[2] < b[1] * a[2]

\* x ** k for a natural k; Python gives 0.0 ** 0.0 = 1.0
RECURSIVE RPow(_, _)
RPow(x, k) == IF k = 0 THEN One ELSE RMul(x, RPow(x, k - 1))

\* sum(d.values())
RECURSIVE RSum(_)
RSum(d) ==
    IF DOMAIN d = {} THEN Zero
    ELSE LET k == CHOOSE k \in DOMAIN d : TRUE
         IN  RAdd(d[k], RSum([j \in DOMAIN d \ {k} |-> d[j]]))

\* sum of the values of d at the keys in K
RSumOver(d, K) == RSum([k \in K |-> d[k]])

----------------------------------------------------------------------------
(* The behavioural parameters *)

\* beta, gamma and delta are rationals.  alpha is one of the named values
\*   "0", "1/2", "1"   and   "1/(1+ln2)",
\* the last one so that exp((1 - n) * (1 - alpha) / alpha) = 2 ** (1 - n) is
\* rational.  (1 - alpha) / alpha is the pair <<r, l>> standing for r + l * ln 2.
alpha_is_zero(a) == a = "0"

alpha_ratio(a) ==
    CASE a = "1" -> <<0, 0>>
      [] a = "1/2" -> <<1, 0>>
      [] a = "1/(1+ln2)" -> <<0, 1>>

\* math.exp(m * ratio) for an integer m; rational when m times the rational part
\* of the ratio is 0
math_exp(m, ratio) ==
    CASE m * ratio[1] = 0 ->
        IF m * ratio[2] >= 0 THEN Rat(RPow(Rat(2), m * ratio[2])[1])
        ELSE <<1, RPow(Rat(2), -(m * ratio[2]))[1]>>

\* p ** ratio; rational when the ratio has no ln 2 part
pow_ratio(p, ratio) ==
    CASE ratio[2] = 0 -> RPow(p, ratio[1])

\* x ** (b / (1.0 - b)) for b in [0, 1) with a natural exponent
pow_param(x, b) ==
    LET e == RDiv(b, RSub(One, b))
    IN  CASE e[2] = 1 -> RPow(x, e[1])

OPTIMISATION == "OPTIMISATION"
DECISION == "DECISION"

\* KnapsackInstance._validate_parameters_and_value_threshold
validate_parameters_and_value_threshold(a, b, g, d, pt, vt) ==
    IF ~(RLeq(Zero, b) /\ RLess(b, One)) THEN "ValueError"
    ELSE IF ~(RLeq(Zero, g) /\ RLess(g, One)) THEN "ValueError"
    ELSE IF ~(RLeq(Zero, d) /\ RLeq(d, One)) THEN "ValueError"
    ELSE IF pt = DECISION
         THEN IF IsNone(vt) THEN "TypeError"
              ELSE IF vt[1] < 0 THEN "ValueError"
              ELSE "none"
    ELSE IF pt = OPTIMISATION
         THEN IF alpha_is_zero(a) THEN "ValueError"
              ELSE IF ~IsNone(vt) THEN "TypeError"
              ELSE "none"
    ELSE "ValueError"

----------------------------------------------------------------------------
(* KnapsackInstance.get_node_distribution *)

\* A parameter tuple is the record P of alpha, beta, gamma, delta, problem_type
\* and value_threshold (None or Some(t)).  A distribution is a function from node
\* hashes to masses.  The memo M (distribution_by_hash) is threaded through the
\* recursive calls; every call gives back [M, fault, ret].

\* x in l for a list of KnapsackItem: identity, else KnapsackItem.__eq__
list_contains(l, x) == \E j \in DOMAIN l : l[j] = x \/ item_eq(l[j], x)

\* the filter shared by _non_dominated_terminal_nodes and
\* _non_dominated_optimal_terminal_nodes
non_dominated_filter(h, candidates) ==
    {t \in candidates :
        \/ ~instance_by_hash[t].is_dominated
        \/ \A j \in DOMAIN instance_by_hash[t].included_dominated_items :
               list_contains(instance_by_hash[h].included_dominated_items,
                             instance_by_hash[t].included_dominated_items[j])}

\* KnapsackInstance._non_dominated_terminal_nodes
non_dominated_terminal_nodes(h) ==
    non_dominated_filter(h, instance_by_hash[h].terminal_nodes)

\* KnapsackInstance._non_dominated_optimal_terminal_nodes
non_dominated_optimal_terminal_nodes(h) ==
    non_dominated_filter(h, instance_by_hash[h].optimal_terminal_nodes)

\* a transformed weight that takes the value where the code takes the density
transformed_weight_of_value(i, b, g) ==
    RMul(pow_param(Rat(value(i)), b), pow_param(Rat(weight(i)), g))

\* density ** (beta / (1 - beta)) * weight ** (gamma / (1 - gamma))
transformed_weight(i, b, g) ==
    RMul(pow_param(Norm(value(i), weight(i)), b), pow_param(Rat(weight(i)), g))

\* the hash of the memo entry: beta, alpha, gamma, delta, problem_type, hash(self)
node_distribution_hash(h, P) ==
    <<P.beta, P.alpha, P.gamma, P.delta, P.problem_type, h>>

\* the terminal nodes of a distribution that meet the threshold
witness_nodes(dist, t) ==
    {k \in DOMAIN dist : instance_by_hash[k].standing_value >= t}

\* a brute-force search that cannot tell the optimal terminal nodes from the
\* others and spreads its mass over all of them
search_for_optimum_over_all_terminals(h, d, a) ==
    [o \in instance_by_hash[h].terminal_nodes |->
        <<1, Cardinality(instance_by_hash[h].terminal_nodes)>>]

\* _search_for_optimum: the masses it writes
search_for_optimum(h, d, a) ==
    LET node == instance_by_hash[h]
        ratio == alpha_ratio(a)
        percent_find_optimal_full_set ==
            RMul(RSub(One, d),
                 math_exp(1 - Cardinality(node.terminal_nodes), ratio))
        percent_find_optimal_non_dominated ==
            RMul(d, math_exp(1 - Cardinality(non_dominated_terminal_nodes(h)), ratio))
        OT == node.optimal_terminal_nodes
        NDOT == non_dominated_optimal_terminal_nodes(h)
    IN  [o \in OT |->
            RAdd(RDiv(percent_find_optimal_full_set, Rat(Cardinality(OT))),
                 IF o \in NDOT
                 THEN RDiv(percent_find_optimal_non_dominated, Rat(Cardinality(NDOT)))
                 ELSE Zero)]

\* the two baseline parameter tuples of _search_for_witness
baseline(delta, vt) ==
    [alpha |-> "0", beta |-> Zero, gamma |-> Zero, delta |-> delta,
     problem_type |-> DECISION, value_threshold |-> vt]

\* a terminal node that reports no mass at all
terminal_distribution_empty(h) == <<>>

\* the distribution of a terminal node: node_distribution[hash(self)] = 1.0
terminal_distribution(h) == (h :> One)

RECURSIVE get_node_distribution(_, _, _)
RECURSIVE add_item_and_continue_search(_, _, _, _)

\* _search_for_witness after both baseline searches returned: d0 and d1 are
\* distribution_search_delta_0 and distribution_search_delta_1
witness_distribution(M, P, d0, d1) ==
    LET t == P.value_threshold[1]
        W0 == witness_nodes(d0, t)
        W1 == witness_nodes(d1, t)
        percent_witness_found_delta_0 == RSumOver(d0, W0)
        percent_witness_found_delta_1 == RSumOver(d1, W1)
        ratio == alpha_ratio(P.alpha)
        percent_find_optimal_full_set ==
            RMul(RSub(One, P.delta), pow_ratio(percent_witness_found_delta_0, ratio))
        percent_find_optimal_non_dominated ==
            RMul(P.delta, pow_ratio(percent_witness_found_delta_1, ratio))
    IN  IF W0 # {} /\ percent_witness_found_delta_0 = Zero
        THEN [M |-> M, fault |-> "ZeroDivisionError", ret |-> None]
        ELSE IF ~(W1 \subseteq W0)
        THEN [M |-> M, fault |-> "KeyError", ret |-> None]
        ELSE IF W1 # {} /\ percent_witness_found_delta_1 = Zero
        THEN [M |-> M, fault |-> "ZeroDivisionError", ret |-> None]
        ELSE [M |-> M, fault |-> "none",
              ret |-> [k \in W0 |->
                  RAdd(RMul(percent_find_optimal_full_set,
                            RDiv(d0[k], percent_witness_found_delta_0)),
                       IF k \in W1
                       THEN RMul(percent_find_optimal_non_dominated,
                                 RDiv(d1[k], percent_witness_found_delta_1))
                       ELSE Zero)]]

\* _search_for_witness from the second baseline search on: r1 is its outcome
search_for_witness_delta_1(P, d0, r1) ==
    IF r1.fault # "none" THEN r1
    ELSE witness_distribution(r1.M, P, d0, r1.ret)

\* _search_for_witness from the first baseline search on: r0 is its outcome
search_for_witness_delta_0(h, P, r0) ==
    IF r0.fault # "none" THEN r0
    ELSE search_for_witness_delta_1(P, r0.ret,
             get_node_distribution(r0.M, h, baseline(One, P.value_threshold)))

\* _search_for_witness
search_for_witness(M, h, P) ==
    search_for_witness_delta_0(h, P,
        get_node_distribution(M, h, baseline(Zero, P.value_threshold)))

\* node_distribution[k] += coef * child_distribution[k] for every k of the child
add_scaled(nd, coef, cd) ==
    [k \in DOMAIN nd \cup DOMAIN cd |->
        RAdd(IF k \in DOMAIN nd THEN nd[k] ELSE Zero,
             IF k \in DOMAIN cd THEN RMul(coef, cd[k]) ELSE Zero)]

\* the body of the loop of _add_item_and_continue_search for the child at
\* position X.j, whose distribution call gave c
add_child_distribution(h, P, X, c) ==
    LET node == instance_by_hash[h]
        children == node.child_nodes
        tw(j) == transformed_weight(children[j][1], P.beta, P.gamma)
        transformed_divisor_all == RSum([j \in DOMAIN children |-> tw(j)])
        transformed_divisor_non_dominated ==
            RSum([j \in DOMAIN children |->
                    IF item_hash(children[j][1]) \in node.non_dominated_items
                    THEN tw(j) ELSE Zero])
        in_nd == item_hash(children[X.j][1]) \in node.non_dominated_items
        coef_all == RDiv(RMul(RMul(X.rest, RSub(One, P.delta)), tw(X.j)),
                         transformed_divisor_all)
        coef_nd == RDiv(RMul(RMul(X.rest, P.delta), tw(X.j)),
                        transformed_divisor_non_dominated)
    IN  IF c.fault # "none" THEN c
        ELSE IF transformed_divisor_all = Zero
        THEN [M |-> c.M, fault |-> "ZeroDivisionError", ret |-> None]
        ELSE IF in_nd /\ transformed_divisor_non_dominated = Zero
        THEN [M |-> c.M, fault |-> "ZeroDivisionError", ret |-> None]
        ELSE add_item_and_continue_search(c.M, h, P,
                 [j |-> X.j + 1, rest |-> X.rest,
                  nd |-> IF in_nd
                         THEN add_scaled(add_scaled(X.nd, coef_all, c.ret),
                                         coef_nd, c.ret)
                         ELSE add_scaled(X.nd, coef_all, c.ret)])

\* _add_item_and_continue_search: the loop over child_nodes from position X.j on,
\* with X.nd the node_distribution so far and X.rest = percent_not_find_optimal
add_item_and_continue_search(M, h, P, X) ==
    IF X.j > Len(instance_by_hash[h].child_nodes)
    THEN [M |-> M, fault |-> "none", ret |-> X.nd]
    ELSE add_child_distribution(h, P, X,
             get_node_distribution(M, instance_by_hash[h].child_nodes[X.j][2], P))

\* the brute force search for the optimum / a witness
brute_force_search(M, h, P) ==
    IF P.problem_type = OPTIMISATION
    THEN [M |-> M, fault |-> "none", ret |-> search_for_optimum(h, P.delta, P.alpha)]
    ELSE IF ~alpha_is_zero(P.alpha)
    THEN search_for_witness(M, h, P)
    ELSE [M |-> M, fault |-> "none", ret |-> <<>>]

\* percent_not_find_optimal and, when it is not 0, the search through the children
continue_search(h, P, brute) ==
    IF brute.fault # "none" THEN brute
    ELSE IF RSub(One, RSum(brute.ret)) # Zero
    THEN add_item_and_continue_search(brute.M, h, P,
             [j |-> 1, rest |-> RSub(One, RSum(brute.ret)), nd |-> brute.ret])
    ELSE brute

\* the check of the sum and the store into distribution_by_hash
check_and_store(key, full) ==
    IF full.fault # "none" THEN full
    ELSE IF RSum(full.ret) # One
    THEN [M |-> full.M, fault |-> "RuntimeError", ret |-> None]
    ELSE [M |-> (key :> full.ret) @@ full.M, fault |-> "none", ret |-> full.ret]

\* get_node_distribution once the memo has missed
compute_node_distribution(M, h, P, invalid) ==
    IF invalid # "none" THEN [M |-> M, fault |-> invalid, ret |-> None]
    ELSE IF instance_by_hash[h].is_terminal_node
    THEN [M |-> M, fault |-> "none", ret |-> terminal_distribution(h)]
    ELSE check_and_store(node_distribution_hash(h, P),
             continue_search(h, P, brute_force_search(M, h, P)))

\* get_node_distribution without the memo lookup: every call computes and stores
get_node_distribution_without_lookup(M, h, P) ==
    compute_node_distribution(M, h, P,
        validate_parameters_and_value_threshold(
            P.alpha, P.beta, P.gamma, P.delta, P.problem_type, P.value_threshold))

\* KnapsackInstance.get_node_distribution
get_node_distribution(M, h, P) ==
    IF node_distribution_hash(h, P) \in DOMAIN M
    THEN [M |-> M, fault |-> "none", ret |-> M[node_distribution_hash(h, P)]]
    ELSE compute_node_distribution(M, h, P,
             validate_parameters_and_value_threshold(
                 P.alpha, P.beta, P.gamma, P.delta, P.problem_type,
                 P.value_threshold))

\* the witness mass of the distribution r that get_node_distribution gave
percent_witness_found(r, t) ==
    IF r.fault # "none" THEN r
    ELSE [M |-> r.M, fault |-> "none",
          ret |-> RSumOver(r.ret, witness_nodes(r.ret, t))]

\* the whole mass of the distribution r, witness or not
percent_all(r, t) ==
    IF r.fault # "none" THEN r
    ELSE [M |-> r.M, fault |-> "none", ret |-> RSum(r.ret)]

\* solve_decision_variant summing the whole distribution
solve_decision_variant_all_mass(M, h, P) ==
    IF validate_parameters_and_value_threshold(
           P.alpha, P.beta, P.gamma, P.delta, DECISION, P.value_threshold) # "none"
    THEN [M |-> M,
          fault |-> validate_parameters_and_value_threshold(
                        P.alpha, P.beta, P.gamma, P.delta, DECISION,
                        P.value_threshold),
          ret |-> None]
    ELSE percent_all(
             get_node_distribution(M, h, [P EXCEPT !.problem_type = DECISION]),
             P.value_threshold[1])

\* KnapsackInstance.solve_decision_variant
solve_decision_variant(M, h, P) ==
    IF validate_parameters_and_value_threshold(
           P.alpha, P.beta, P.gamma, P.delta, DECISION, P.value_threshold) # "none"
    THEN [M |-> M,
          fault |-> validate_parameters_and_value_threshold(
                        P.alpha, P.beta, P.gamma, P.delta, DECISION,
                        P.value_threshold),
          ret |-> None]
    ELSE percent_witness_found(
             get_node_distribution(M, h, [P EXCEPT !.problem_type = DECISION]),
             P.value_threshold[1])

----------------------------------------------------------------------------
(* The state before anything has been constructed *)

NoCall == [op |-> "none"]

Init ==
    /\ knapsack_items_count = 0
    /\ items = <<>>
    /\ instance_by_hash = <<>>
    /\ distribution_by_hash = <<>>
    /\ allocated = <<>>
    /\ calls = 0
    /\ last = NoCall
    /\ callers = <<>>

\* the ids of the items constructed so far (ids start at 0)
ItemIds == 0..(knapsack_items_count - 1)

----------------------------------------------------------------------------
(* Operations of KnapsackItem *)

\* KnapsackItem(v, w)
NewItem(v, w) ==
    /\ knapsack_items_count < MaxItems
    /\ IF KnapsackItem_fault(v, w) = "none"
       THEN /\ items' = [i \in 0..knapsack_items_count |->
                            IF i = knapsack_items_count THEN KnapsackItem_new(v, w)
                            ELSE items[i]]
            /\ knapsack_items_count' = knapsack_items_count + 1
            /\ last' = [op |-> "KnapsackItem", fault |-> "none",
                        result |-> knapsack_items_count]
       ELSE /\ UNCHANGED <<items, knapsack_items_count>>
            /\ last' = [op |-> "KnapsackItem", fault |-> KnapsackItem_fault(v, w)]
    /\ UNCHANGED <<instance_by_hash, distribution_by_hash, allocated, calls,
                   callers>>

\* self.set_dominance(cands)
SetDominance(self, cands) ==
    /\ IF set_dominance_fault(self, cands) = "none"
       THEN items' = set_dominance(items, self, cands)
       ELSE UNCHANGED items
    /\ last' = [op |-> "set_dominance", fault |-> set_dominance_fault(self, cands)]
    /\ UNCHANGED <<knapsack_items_count, instance_by_hash, distribution_by_hash,
                   allocated, calls, callers>>

\* self.check_dominance(cands)
CheckDominance(self, cands) ==
    /\ last' = IF check_dominance_fault(items, self) = "none"
               THEN [op |-> "check_dominance", fault |-> "none",
                     result |-> check_dominance(items, self, cands)]
               ELSE [op |-> "check_dominance",
                     fault |-> check_dominance_fault(items, self)]
    /\ UNCHANGED <<knapsack_items_count, items, instance_by_hash,
                   distribution_by_hash, allocated, calls, callers>>

\* the dominance pass over a list l of distinct items:
\* for i, knapsack_item in enumerate(l): knapsack_item.set_dominance(l[:i] + l[i+1:])
SetDominanceAll(l) ==
    /\ items' = set_dominance_all(items, l, 1)
    /\ last' = [op |-> "set_dominance_all", over |-> Range(l)]
    /\ UNCHANGED <<knapsack_items_count, instance_by_hash, distribution_by_hash,
                   allocated, calls, callers>>

NextItem ==
    \/ \E v \in (-1)..MaxValue, w \in 0..MaxWeight : NewItem(v, w)
    \/ \E self \in ItemIds, cands \in AscSeqs(ItemIds) : SetDominance(self, cands)
    \/ \E self \in ItemIds, cands \in AscSeqs(ItemIds) : CheckDominance(self, cands)
    \/ \E l \in AscSeqs(ItemIds) \ {<<>>} : SetDominanceAll(l)

SpecItem == Init /\ [][NextItem]_vars

----------------------------------------------------------------------------
(* Operations of KnapsackInstance: construction *)

MaxCapacity == 2
MaxRoots == 1

\* the roots registered
Roots == {h \in DOMAIN instance_by_hash : IsNone(instance_by_hash[h].master_knapsack)}

\* KnapsackInstance.create(its, cap): the documented call, with the defaults
\* standing_value = 0, standing_knapsack_items = [], master_knapsack = None
Create(its, cap) ==
    LET c == create([pool |-> items, reg |-> instance_by_hash, alloc |-> allocated],
                    its, cap, 0, <<>>, None)
    IN  /\ items' = c.S.pool
        /\ instance_by_hash' = c.S.reg
        /\ allocated' = c.S.alloc
        /\ last' = IF c.fault = "none"
                   THEN [op |-> "create", fault |-> "none", result |-> c.ret]
                   ELSE [op |-> "create", fault |-> c.fault]
        /\ UNCHANGED <<knapsack_items_count, distribution_by_hash, calls,
                       callers>>

NextGraph ==
    \/ \E v \in 0..MaxValue, w \in 1..MaxWeight : NewItem(v, w)
    \/ \E its \in InjSeqs(ItemIds), cap \in 0..MaxCapacity :
           /\ \/ Cardinality(Roots) < MaxRoots
              \/ knapsack_hash(its, cap, 0, <<>>, None) \in DOMAIN instance_by_hash
           /\ Create(its, cap)

SpecGraph == Init /\ [][NextGraph]_vars

----------------------------------------------------------------------------
(* Operations of KnapsackInstance: distributions *)

MaxThreshold == 2
MaxCalls == 1

Betas == {Zero, Half}
Gammas == {Zero, Half}
Deltas == {Zero, Half, One}

\* the parameter tuples each variant accepts
ValidParams ==
    [alpha : {"1/(1+ln2)", "1"}, beta : Betas, gamma : Gammas, delta : Deltas,
     problem_type : {OPTIMISATION}, value_threshold : {None}]
    \cup
    [alpha : {"0", "1/2", "1"}, beta : Betas, gamma : Gammas, delta : Deltas,
     problem_type : {DECISION},
     value_threshold : {Some(t) : t \in 0..MaxThreshold}]

\* tuples the validation rejects: alpha = 0 or a threshold for OPTIMISATION,
\* no threshold for DECISION
InvalidParams ==
    [alpha : {"0"}, beta : Betas, gamma : Gammas, delta : Deltas,
     problem_type : {OPTIMISATION}, value_threshold : {None}]
    \cup
    [alpha : {"1/(1+ln2)", "1"}, beta : Betas, gamma : Gammas, delta : Deltas,
     problem_type : {OPTIMISATION}, value_threshold : {Some(0)}]
    \cup
    [alpha : {"0", "1/2", "1"}, beta : Betas, gamma : Gammas, delta : Deltas,
     problem_type : {DECISION}, value_threshold : {None}]

ParamTuples == ValidParams \cup InvalidParams

DecisionParams == {P \in ParamTuples : P.problem_type = DECISION}

\* node.get_node_distribution(alpha, beta, gamma, delta, problem_type, threshold)
GetNodeDistribution(h, P) ==
    LET r == get_node_distribution(distribution_by_hash, h, P)
    IN  /\ calls' = calls + 1
        /\ distribution_by_hash' = r.M
        /\ last' = [op |-> "get_node_distribution", node |-> h, P |-> P,
                    fault |-> r.fault, result |-> r.ret]
        /\ UNCHANGED <<knapsack_items_count, items, instance_by_hash, allocated,
                       callers>>

\* node.solve_decision_variant(alpha, beta, gamma, delta, threshold)
SolveDecisionVariant(h, P) ==
    LET r == solve_decision_variant(distribution_by_hash, h, P)
    IN  /\ calls' = calls + 1
        /\ distribution_by_hash' = r.M
        /\ last' = [op |-> "solve_decision_variant", node |-> h, P |-> P,
                    fault |-> r.fault, result |-> r.ret]
        /\ UNCHANGED <<knapsack_items_count, items, instance_by_hash, allocated,
                       callers>>

\* the whole pool, in construction order
AllItems == [j \in 1..knapsack_items_count |-> j - 1]

\* The documented use: the items are constructed, one root is created from all
\* of them, and the root and its descendants are queried.
NextDist ==
    \/ /\ instance_by_hash = <<>>
       /\ \E v \in 0..MaxValue, w \in 1..MaxWeight : NewItem(v, w)
    \/ /\ instance_by_hash = <<>>
       /\ \E cap \in 0..MaxCapacity : Create(AllItems, cap)
    \/ /\ calls < MaxCalls
       /\ \E h \in DOMAIN instance_by_hash, P \in ParamTuples :
              GetNodeDistribution(h, P)

SpecDist == Init /\ [][NextDist]_vars

NextSolve ==
    \/ /\ instance_by_hash = <<>>
       /\ \E v \in 0..MaxValue, w \in 1..MaxWeight : NewItem(v, w)
    \/ /\ instance_by_hash = <<>>
       /\ \E cap \in 0..MaxCapacity : Create(AllItems, cap)
    \/ /\ calls < MaxCalls
       /\ \E h \in DOMAIN instance_by_hash, P \in DecisionParams :
              SolveDecisionVariant(h, P)

SpecSolve == Init /\ [][NextSolve]_vars

\* Repeated DECISION queries of one root against the shared memo: the calls
\* differ in delta and in the threshold only.
MaxMemoCalls == 2

MemoParams ==
    [alpha : {"1/2"}, beta : {Zero}, gamma : {Zero}, delta : {Zero, One},
     problem_type : {DECISION},
     value_threshold : {Some(t) : t \in 0..MaxThreshold}]

NextMemo ==
    \/ /\ instance_by_hash = <<>>
       /\ \E v \in 0..MaxValue, w \in 1..MaxWeight : NewItem(v, w)
    \/ /\ instance_by_hash = <<>>
       /\ \E cap \in 0..MaxCapacity : Create(AllItems, cap)
    \/ /\ calls < MaxMemoCalls
       /\ \E h \in Roots, P \in MemoParams : GetNodeDistribution(h, P)
    \/ /\ calls < MaxMemoCalls
       /\ \E h \in Roots, P \in MemoParams : SolveDecisionVariant(h, P)

SpecMemo == Init /\ [][NextMemo]_vars

----------------------------------------------------------------------------
(* Properties of KnapsackItem dominance (checked under SpecItem) *)

\* c is cached as a dominator of x
Dominates(c, x) ==
    /\ ~IsNone(items[x].dominating)
    /\ item_hash(c) \in items[x].dominating[1]

\* c and x have the same value and the same weight
Duplicates(c, x) == value(c) = value(x) /\ weight(c) = weight(x)

\* the dominating set the documentation gives for x.set_dominance(C)
DocumentedDominators(x, C) ==
    {item_hash(c) : c \in {c \in Range(C) :
        \/ (value(c) > value(x) /\ weight(c) <= weight(x))
        \/ (value(c) >= value(x) /\ weight(c) < weight(x))
        \/ (Duplicates(c, x) /\ c < x)}}

\* C8: every x.set_dominance(C) that returns caches exactly the identities of
\* the c in C that beat x on value and weight or are exact value-and-weight
\* duplicates of x with a lower id, and every x.check_dominance(D) that
\* returns answers whether D holds an item of the cached set.
C8_SetDominanceCachesDocumentedSet ==
    [][\A self \in ItemIds, cands \in AscSeqs(ItemIds) :
          /\ (SetDominance(self, cands) /\ set_dominance_fault(self, cands) = "none")
                => items'[self].dominating = Some(DocumentedDominators(self, cands))
          /\ (CheckDominance(self, cands) /\ check_dominance_fault(items, self) = "none")
                => (last'.result <=>
                       \E d \in Range(cands) : item_hash(d) \in items[self].dominating[1])
      ]_vars

\* C9: after the dominance pass over a list, any two items of the list with the
\* same value and the same weight are ordered by id: the earlier one dominates
\* the later one and the later one does not dominate the earlier one, so each
\* is dominated by exactly the duplicates created before it and the earliest
\* by none.
C9_DuplicatesOrderedById ==
    last.op = "set_dominance_all" =>
        \A x \in last.over, c \in last.over :
            (c # x /\ Duplicates(c, x)) => (Dominates(c, x) <=> c < x)

\* a dominance pass has run over three items with the same value and weight
C9_Witness ==
    /\ last.op = "set_dominance_all"
    /\ \E x \in last.over, y \in last.over, z \in last.over :
          /\ x < y /\ y < z
          /\ Duplicates(x, y) /\ Duplicates(y, z)
          /\ Dominates(x, y) /\ Dominates(x, z) /\ Dominates(y, z)

\* C10: after the dominance pass over a list of valid items, dominance among
\* the items of the list is a strict partial order: irreflexive, asymmetric
\* and transitive.
C10_StrictPartialOrder ==
    last.op = "set_dominance_all" =>
        /\ \A x \in last.over : ~Dominates(x, x)
        /\ \A x \in last.over, y \in last.over :
              (x # y /\ Dominates(x, y)) => ~Dominates(y, x)
        /\ \A x \in last.over, y \in last.over, z \in last.over :
              (Dominates(x, y) /\ Dominates(y, z)) => Dominates(x, z)

----------------------------------------------------------------------------
(* Properties of the search graph (checked under SpecGraph) *)

\* the nodes a node's child edges lead to
Children(h) ==
    {instance_by_hash[h].child_nodes[j][2] : j \in DOMAIN instance_by_hash[h].child_nodes}

\* the nodes that have h among their children
Parents(h) == {p \in DOMAIN instance_by_hash : h \in Children(p)}

\* h and everything reachable from h through child edges
RECURSIVE Descendants(_)
Descendants(h) == {h} \cup UNION {Descendants(c) : c \in Children(h)}

ReachableTerminals(h) ==
    {t \in Descendants(h) : instance_by_hash[t].is_terminal_node}

RECURSIVE TotalWeight(_)
TotalWeight(Sel) ==
    IF Sel = {} THEN 0
    ELSE LET i == CHOOSE i \in Sel : TRUE IN weight(i) + TotalWeight(Sel \ {i})

\* Sel is a feasible selection of R for capacity cap that no item of R extends
MaximalFeasible(Sel, R, cap) ==
    /\ TotalWeight(Sel) <= cap
    /\ \A i \in R \ Sel : TotalWeight(Sel) + weight(i) > cap

\* C2: __init__ is never entered twice for one structural key, every node is
\* registered under the key computed from its own fields, and a create call
\* whose key is in the registry returns that node and leaves the registry, the
\* allocations and the items as they were.
C2_OneNodePerKey ==
    /\ [](/\ \A i \in DOMAIN allocated, j \in DOMAIN allocated :
                i # j => allocated[i] # allocated[j]
          /\ Range(allocated) = DOMAIN instance_by_hash
          /\ \A h \in DOMAIN instance_by_hash :
                LET n == instance_by_hash[h]
                IN  h = knapsack_hash(n.knapsack_items, n.knapsack_capacity,
                                      n.standing_value, n.standing_knapsack_items,
                                      n.master_knapsack))
    /\ [][\A its \in InjSeqs(ItemIds), cap \in 0..MaxCapacity :
             (/\ knapsack_hash(its, cap, 0, <<>>, None) \in DOMAIN instance_by_hash
              /\ Create(its, cap))
             => /\ UNCHANGED <<instance_by_hash, allocated, items>>
                /\ last'.fault = "none"
                /\ last'.result = knapsack_hash(its, cap, 0, <<>>, None)
       ]_vars

\* a node reached by two construction paths: it has two parents and was
\* allocated once
C2_Witness ==
    \E h \in DOMAIN instance_by_hash :
        /\ Cardinality(Parents(h)) >= 2
        /\ Cardinality({i \in DOMAIN allocated : allocated[i] = h}) = 1

\* C4: no eligible item of a terminal node reachable from a root fits in the
\* terminal's remaining capacity, and every maximal feasible selection of the
\* root's items is the committed set of a terminal node reachable from the root.
C4_TerminalsAreMaximalSelections ==
    \A r \in Roots :
        /\ \A t \in ReachableTerminals(r) :
              \A i \in Range(instance_by_hash[t].knapsack_items) :
                  weight(i) > instance_by_hash[t].knapsack_capacity
        /\ \A Sel \in SUBSET Range(instance_by_hash[r].knapsack_items) :
              MaximalFeasible(Sel, Range(instance_by_hash[r].knapsack_items),
                              instance_by_hash[r].knapsack_capacity)
              => \E t \in ReachableTerminals(r) :
                    Range(instance_by_hash[t].standing_knapsack_items) = Sel

\* C6: for every non-terminal node the stored terminal set is the set of
\* terminals reachable through child edges, the stored optimal value is the
\* greatest accumulated value over them, the stored optimal terminals are the
\* ones attaining it, no child's optimal value exceeds the node's, and create
\* never raises.
C6_StoredAggregatesExact ==
    /\ last.op = "create" => last.fault = "none"
    /\ \A h \in DOMAIN instance_by_hash :
          LET n == instance_by_hash[h]
              T == ReachableTerminals(h)
              best == Max({instance_by_hash[t].standing_value : t \in T})
          IN  ~n.is_terminal_node =>
                /\ n.terminal_nodes = T
                /\ n.optimal_terminal_node_value = best
                /\ n.optimal_terminal_nodes =
                       {t \in T : instance_by_hash[t].standing_value = best}
                /\ \A c \in Children(h) :
                       instance_by_hash[c].optimal_terminal_node_value
                           <= n.optimal_terminal_node_value

\* a non-terminal node with a non-terminal child whose reachable terminals do
\* not all attain the optimal value
C6_Witness ==
    \E h \in DOMAIN instance_by_hash :
        /\ ~instance_by_hash[h].is_terminal_node
        /\ \E c \in Children(h) : ~instance_by_hash[c].is_terminal_node
        /\ instance_by_hash[h].optimal_terminal_nodes # {}
        /\ instance_by_hash[h].optimal_terminal_nodes
               # instance_by_hash[h].terminal_nodes

----------------------------------------------------------------------------
(* Properties of the distributions (checked under SpecDist, SpecSolve, SpecMemo) *)

\* the last call was get_node_distribution with a parameter tuple the
\* validation accepts
ValidDistributionCall ==
    /\ last.op = "get_node_distribution"
    /\ last.P \in ValidParams

\* C1: get_node_distribution on any node of a root built from valid items, with
\* any valid parameter tuple, returns without a fault, and the masses returned
\* are non-negative and sum to 1.
C1_DistributionCompletes ==
    ValidDistributionCall =>
        /\ last.fault = "none"
        /\ \A k \in DOMAIN last.result : RLeq(Zero, last.result[k])
        /\ RSum(last.result) = One

\* C3: a DECISION distribution returned after earlier calls is the one computed
\* for the same node, parameters and threshold with an empty memo.
C3_MemoKeyedByThreshold ==
    (/\ last.op = "get_node_distribution"
     /\ last.P.problem_type = DECISION
     /\ last.fault = "none")
    => last.result = get_node_distribution(<<>>, last.node, last.P).ret

\* C5: get_node_distribution on a terminal node, with any valid parameter tuple
\* of either variant, returns the mapping with the single entry node |-> 1.
C5_TerminalDistribution ==
    (ValidDistributionCall /\ instance_by_hash[last.node].is_terminal_node)
    => /\ last.fault = "none"
       /\ last.result = (last.node :> One)

\* a terminal node below the root has been queried
C5_Witness ==
    /\ ValidDistributionCall
    /\ instance_by_hash[last.node].is_terminal_node
    /\ ~IsNone(instance_by_hash[last.node].master_knapsack)
    /\ last.fault = "none"
    /\ DOMAIN last.result = {last.node}

\* C7: a solve_decision_variant call that returns gives the mass the DECISION
\* distribution of the node, for the same parameters and threshold, puts on
\* terminal nodes whose accumulated value is at least the threshold, and the
\* value lies between 0 and 1.
C7_SolveSumsWitnessMass ==
    (last.op = "solve_decision_variant" /\ last.fault = "none") =>
        LET D == get_node_distribution(distribution_by_hash, last.node,
                     [last.P EXCEPT !.problem_type = DECISION]).ret
            t == last.P.value_threshold[1]
        IN  /\ last.result =
                  RSumOver(D, {k \in DOMAIN D : instance_by_hash[k].standing_value >= t})
            /\ RLeq(Zero, last.result)
            /\ RLeq(last.result, One)

\* solve_decision_variant returned a probability strictly between 0 and 1
C7_Witness ==
    /\ last.op = "solve_decision_variant"
    /\ last.fault = "none"
    /\ RLess(Zero, last.result)
    /\ RLess(last.result, One)

----------------------------------------------------------------------------
(* Properties of the structural key (checked under SpecGraph) *)

\* C11: two nodes of one root with the same capacity and accumulated value,
\* whose eligible lists hold the same items and whose committed lists hold the
\* same items, in whatever order, are one node.
C11_KeyOrderIndependent ==
    \A h1 \in DOMAIN instance_by_hash, h2 \in DOMAIN instance_by_hash :
        LET n1 == instance_by_hash[h1]
            n2 == instance_by_hash[h2]
        IN  (/\ n1.master_knapsack = n2.master_knapsack
             /\ n1.knapsack_capacity = n2.knapsack_capacity
             /\ n1.standing_value = n2.standing_value
             /\ Range(n1.knapsack_items) = Range(n2.knapsack_items)
             /\ Range(n1.standing_knapsack_items) = Range(n2.standing_knapsack_items))
            => h1 = h2

----------------------------------------------------------------------------
(* Queries with and without a threshold against the shared memo *)

\* both variants, each with a threshold and without one
ThresholdParams ==
    [alpha : {"1"}, beta : {Zero}, gamma : {Zero}, delta : {Zero},
     problem_type : {OPTIMISATION, DECISION},
     value_threshold : {None, Some(0)}]

NextThreshold ==
    \/ /\ instance_by_hash = <<>>
       /\ \E v \in 0..MaxValue, w \in 1..MaxWeight : NewItem(v, w)
    \/ /\ instance_by_hash = <<>>
       /\ \E cap \in 0..MaxCapacity : Create(AllItems, cap)
    \/ /\ calls < MaxMemoCalls
       /\ \E h \in DOMAIN instance_by_hash, P \in ThresholdParams :
              GetNodeDistribution(h, P)

SpecThreshold == Init /\ [][NextThreshold]_vars

\* the threshold of P does not suit its variant
ThresholdMismatch(P) ==
    \/ P.problem_type = OPTIMISATION /\ ~IsNone(P.value_threshold)
    \/ P.problem_type = DECISION /\ IsNone(P.value_threshold)

\* C12: get_node_distribution with OPTIMISATION and a threshold, or with
\* DECISION and no threshold, raises a validation fault whatever was called
\* before.
C12_ThresholdMismatchRaises ==
    (last.op = "get_node_distribution" /\ ThresholdMismatch(last.P))
    => last.fault \in {"TypeError", "ValueError"}

----------------------------------------------------------------------------
(* Properties of the KnapsackItem operations (checked under SpecItem) *)

\* C13: check_dominance raises the usage-order fault exactly when the item's
\* dominance is unset, whatever the candidate list, and then gives no boolean;
\* a set_dominance call that returns leaves the item set, and a set item is
\* never unset again.
C13_CheckBeforeSetRaises ==
    [][/\ \A self \in ItemIds, cands \in AscSeqs(ItemIds) :
             /\ CheckDominance(self, cands) =>
                   IF IsNone(items[self].dominating)
                   THEN last' = [op |-> "check_dominance", fault |-> "RuntimeError"]
                   ELSE last'.fault = "none" /\ last'.result \in BOOLEAN
             /\ (SetDominance(self, cands) /\ set_dominance_fault(self, cands) = "none")
                   => ~IsNone(items'[self].dominating)
       /\ \A i \in ItemIds : ~IsNone(items[i].dominating) => ~IsNone(items'[i].dominating)
      ]_vars

\* check_dominance has just raised on an unset item while another item is set
C13_Witness ==
    /\ last = [op |-> "check_dominance", fault |-> "RuntimeError"]
    /\ \E i \in ItemIds : IsNone(items[i].dominating)
    /\ \E i \in ItemIds : ~IsNone(items[i].dominating)

----------------------------------------------------------------------------
(* Comparison of items: a == b, a > b on items of a pool with values up to
   MaxCompareValue, so that items of equal density and different value exist *)

MaxCompareValue == 2

\* a == b and a > b, evaluated on two items of the pool
Compare(a, b) ==
    /\ last' = [op |-> "compare", self |-> a, other |-> b,
                eq |-> item_eq(a, b), gt |-> item_gt(a, b)]
    /\ UNCHANGED <<knapsack_items_count, items, instance_by_hash,
                   distribution_by_hash, allocated, calls, callers>>

NextCompare ==
    \/ \E v \in 0..MaxCompareValue, w \in 1..MaxWeight : NewItem(v, w)
    \/ \E a \in ItemIds, b \in ItemIds : Compare(a, b)

SpecCompare == Init /\ [][NextCompare]_vars

----------------------------------------------------------------------------
(* Properties of child generation (checked under SpecGraph) *)

\* the positions of the eligible items of node n that fit its capacity
FittingPositions(n) ==
    {i \in DOMAIN n.knapsack_items :
        weight(n.knapsack_items[i]) <= n.knapsack_capacity}

\* the i-th smallest element of a set of positions
RECURSIVE NthPosition(_, _)
NthPosition(Pos, j) ==
    LET least == CHOOSE p \in Pos : \A q \in Pos : p <= q
    IN  IF j = 1 THEN least ELSE NthPosition(Pos \ {least}, j - 1)

----------------------------------------------------------------------------
(* Properties of the non-dominated terminal nodes (checked under SpecGraph) *)

\* the terminal nodes below h none of whose dominated committed items is new:
\* each is, as an item (by id), a dominated committed item of h
TerminalsWithoutNewDominatedItem(h, candidates) ==
    {t \in candidates :
        Range(instance_by_hash[t].included_dominated_items)
            \subseteq Range(instance_by_hash[h].included_dominated_items)}

\* C17: for every node the non-dominated terminal nodes are exactly the
\* terminal descendants whose dominated committed items are all, by id, among
\* the node's own dominated committed items, and the non-dominated optimal
\* terminal nodes are the optimal ones among them.
C17_NonDominatedTerminalsByIdentity ==
    \A h \in DOMAIN instance_by_hash :
        /\ non_dominated_terminal_nodes(h) =
              TerminalsWithoutNewDominatedItem(h,
                  {t \in Descendants(h) \ {h} : instance_by_hash[t].is_terminal_node})
        /\ non_dominated_optimal_terminal_nodes(h) =
              TerminalsWithoutNewDominatedItem(h,
                  instance_by_hash[h].optimal_terminal_nodes)

----------------------------------------------------------------------------
(* Properties of the search through the children (checked under SpecDist) *)

\* t(i) = density(i) ^ (beta / (1 - beta)) * weight(i) ^ (gamma / (1 - gamma))
DocumentedTransformedWeight(i, b, g) ==
    RMul(RPow(Norm(items[i].value, items[i].weight), RDiv(b, RSub(One, b))[1]),
         RPow(Rat(items[i].weight), RDiv(g, RSub(One, g))[1]))

\* the child entries of node h that are reached by a non-dominated item
NonDominatedEntries(h) ==
    {j \in DOMAIN instance_by_hash[h].child_nodes :
        item_hash(instance_by_hash[h].child_nodes[j][1])
            \in instance_by_hash[h].non_dominated_items}

\* w(i) for the item of the j-th child entry of node h
DocumentedChildShare(h, j, b, g, d) ==
    LET children == instance_by_hash[h].child_nodes
        t(k) == DocumentedTransformedWeight(children[k][1], b, g)
        all == RSum([k \in DOMAIN children |-> t(k)])
        nd == RSum([k \in NonDominatedEntries(h) |-> t(k)])
    IN  RAdd(RDiv(RMul(RSub(One, d), t(j)), all),
             IF j \in NonDominatedEntries(h) THEN RDiv(RMul(d, t(j)), nd) ELSE Zero)

\* the distribution of node c for the parameters of the memo key: certain for a
\* terminal node, the memo entry otherwise
DistributionAt(key, c) ==
    IF instance_by_hash[c].is_terminal_node THEN (c :> One)
    ELSE distribution_by_hash[<<key[1], key[2], key[3], key[4], key[5], c>>]

\* the sum over the children of node key[6] of w(i) times the child's distribution
DocumentedChildSum(key) ==
    LET h == key[6]
        children == instance_by_hash[h].child_nodes
        D(j) == DistributionAt(key, children[j][2])
    IN  [k \in UNION {DOMAIN D(j) : j \in DOMAIN children} |->
            RSum([j \in DOMAIN children |->
                    RMul(DocumentedChildShare(h, j, key[1], key[3], key[4]),
                         IF k \in DOMAIN D(j) THEN D(j)[k] ELSE Zero)])]

\* C18: every DECISION distribution with alpha = 0 that was computed for a
\* non-terminal node is the sum over the node's children of w(i) times the
\* child's distribution (so no mass comes from a brute-force search), and for
\* beta = gamma = 0 the share w(i) is (1 - delta) / |children|, plus
\* delta / |children reached by non-dominated items| when i is non-dominated.
C18_DecisionAlphaZeroIsChildSum ==
    \A key \in DOMAIN distribution_by_hash :
        (key[2] = "0" /\ key[5] = DECISION) =>
            /\ ~instance_by_hash[key[6]].is_terminal_node
            /\ distribution_by_hash[key] = DocumentedChildSum(key)
            /\ (key[1] = Zero /\ key[3] = Zero) =>
                  \A j \in DOMAIN instance_by_hash[key[6]].child_nodes :
                      DocumentedChildShare(key[6], j, Zero, Zero, key[4]) =
                          RAdd(RDiv(RSub(One, key[4]),
                                    Rat(Len(instance_by_hash[key[6]].child_nodes))),
                               IF j \in NonDominatedEntries(key[6])
                               THEN RDiv(key[4],
                                         Rat(Cardinality(NonDominatedEntries(key[6]))))
                               ELSE Zero)

\* a DECISION call with alpha = 0, beta = 1/2 and delta = 1/2 has returned for a
\* node with a child reached by a dominated item and one reached by a
\* non-dominated item, the items having different densities
C18_Witness ==
    /\ last.op = "get_node_distribution"
    /\ last.fault = "none"
    /\ last.P.problem_type = DECISION
    /\ last.P.alpha = "0"
    /\ last.P.beta = Half
    /\ last.P.delta = Half
    /\ ~instance_by_hash[last.node].is_terminal_node
    /\ NonDominatedEntries(last.node) # {}
    /\ NonDominatedEntries(last.node) # DOMAIN instance_by_hash[last.node].child_nodes
    /\ \E k1 \in DOMAIN last.result, k2 \in DOMAIN last.result :
          last.result[k1] # last.result[k2]
    /\ last.result = DocumentedChildSum(<<last.P.beta, last.P.alpha, last.P.gamma,
                                          last.P.delta, last.P.problem_type,
                                          last.node>>)

\* the terminal nodes reachable from h by adding, at every step, an item that
\* no other eligible item of that step dominates
RECURSIVE NonDominatedPathTerminals(_)
NonDominatedPathTerminals(h) ==
    IF instance_by_hash[h].is_terminal_node THEN {h}
    ELSE UNION {NonDominatedPathTerminals(instance_by_hash[h].child_nodes[j][2]) :
                    j \in NonDominatedEntries(h)}

\* C19: a distribution returned for delta = 1, in either variant, gives positive
\* mass only to terminal nodes reachable from the queried node by a path that
\* adds a non-dominated item at every step.
C19_DeltaOneFollowsNonDominatedPaths ==
    (/\ last.op = "get_node_distribution"
     /\ last.fault = "none"
     /\ last.P.delta = One)
    => \A k \in DOMAIN last.result :
          RLess(Zero, last.result[k]) => k \in NonDominatedPathTerminals(last.node)

\* the terminal nodes below h whose accumulated value is the greatest
OptimalReachableTerminals(h) ==
    {t \in ReachableTerminals(h) :
        \A u \in ReachableTerminals(h) :
            instance_by_hash[u].standing_value <= instance_by_hash[t].standing_value}

C21_KeysAreReachableTerminals ==
    (/\ ValidDistributionCall
     /\ last.fault = "none"
     /\ ~instance_by_hash[last.node].is_terminal_node)
    => DOMAIN last.result = ReachableTerminals(last.node)

\* the witness mass p of the alpha = 0 search with the given delta on node h
BaselineWitnessMass(h, delta, vt) ==
    percent_witness_found(get_node_distribution(<<>>, h, baseline(delta, vt)),
                          vt[1]).ret

\* part1 + part2: the weights the two brute-force parts are documented to have
DocumentedBruteForceWeight(h, P) ==
    IF P.problem_type = OPTIMISATION
    THEN RAdd(RMul(RSub(One, P.delta),
                   math_exp(1 - Cardinality(ReachableTerminals(h)),
                            alpha_ratio(P.alpha))),
              RMul(P.delta,
                   math_exp(1 - Cardinality(non_dominated_terminal_nodes(h)),
                            alpha_ratio(P.alpha))))
    ELSE RAdd(RMul(RSub(One, P.delta),
                   pow_ratio(BaselineWitnessMass(h, Zero, P.value_threshold),
                             alpha_ratio(P.alpha))),
              RMul(P.delta,
                   pow_ratio(BaselineWitnessMass(h, One, P.value_threshold),
                             alpha_ratio(P.alpha))))

\* C22: when a non-terminal node is evaluated (OPTIMISATION, or DECISION with
\* alpha > 0) and the brute-force search completes, the mass it has placed on
\* terminal nodes is part1 + part2, so that 1 - (part1 + part2) is what is left
\* for the search through the children.
C22_BruteForceMassIsPart1PlusPart2 ==
    (/\ ValidDistributionCall
     /\ ~instance_by_hash[last.node].is_terminal_node
     /\ ~(last.P.problem_type = DECISION /\ alpha_is_zero(last.P.alpha))
     /\ brute_force_search(<<>>, last.node, last.P).fault = "none")
    => RSum(brute_force_search(<<>>, last.node, last.P).ret)
          = DocumentedBruteForceWeight(last.node, last.P)

\* the threshold of the last call exceeds the accumulated value of every
\* terminal node reachable from the queried node (the node itself if terminal)
ThresholdOutOfReach ==
    /\ last.op \in {"get_node_distribution", "solve_decision_variant"}
    /\ last.P \in ValidParams
    /\ last.P.problem_type = DECISION
    /\ \A t \in ReachableTerminals(last.node) :
          instance_by_hash[t].standing_value < last.P.value_threshold[1]

\* C23: a DECISION call whose threshold no reachable terminal node attains
\* returns without a fault: get_node_distribution a distribution of
\* non-negative masses that sum to 1, solve_decision_variant the value 0.
C23_UnreachableThresholdCompletes ==
    ThresholdOutOfReach =>
        /\ last.fault = "none"
        /\ last.op = "get_node_distribution" =>
              /\ \A k \in DOMAIN last.result : RLeq(Zero, last.result[k])
              /\ RSum(last.result) = One
        /\ last.op = "solve_decision_variant" => last.result = Zero

----------------------------------------------------------------------------
(* Frame properties of the distribution calls (checked under SpecMemo) *)

\* C24: a get_node_distribution or solve_decision_variant call leaves the node
\* registry, every node and every item as they were, and every distribution
\* that was in the memo before the call is in it, unchanged, after the call.
C24_CallsKeepRegistryAndStoredDistributions ==
    [][(calls' = calls + 1)
       => /\ last'.op \in {"get_node_distribution", "solve_decision_variant"}
          /\ instance_by_hash' = instance_by_hash
          /\ items' = items
          /\ allocated' = allocated
          /\ \A key \in DOMAIN distribution_by_hash :
                /\ key \in DOMAIN distribution_by_hash'
                /\ distribution_by_hash'[key] = distribution_by_hash[key]
      ]_vars

\* a second call has returned for a node that already had a stored
\* distribution under another key
C24_Witness ==
    /\ calls = 2
    /\ last.op = "get_node_distribution"
    /\ last.fault = "none"
    /\ node_distribution_hash(last.node, last.P) \in DOMAIN distribution_by_hash
    /\ \E key \in DOMAIN distribution_by_hash :
          /\ key[6] = last.node
          /\ key[2] = last.P.alpha
          /\ key # node_distribution_hash(last.node, last.P)

----------------------------------------------------------------------------
(* Several roots over one pool of items: the items are constructed first, then
   roots are created from sub-lists of the pool, in construction order *)

MaxSharedRoots == 2

NextRoots ==
    \/ /\ instance_by_hash = <<>>
       /\ \E v \in 0..MaxValue, w \in 1..MaxWeight : NewItem(v, w)
    \/ /\ Cardinality(Roots) < MaxSharedRoots
       /\ \E its \in AscSeqs(ItemIds) \ {<<>>}, cap \in 0..MaxCapacity :
              Create(its, cap)

SpecRoots == Init /\ [][NextRoots]_vars

\* C25: no step changes the cached dominating set of an item that is among the
\* items of a root already built.
C25_DominanceOfRootItemsFrozen ==
    [][\A i \in ItemIds :
          (\E r \in Roots : i \in Range(instance_by_hash[r].knapsack_items))
          => items'[i].dominating = items[i].dominating
      ]_vars

----------------------------------------------------------------------------
(* KnapsackInstance.create run by several threads for the same arguments.
   A thread is at the registry check of create ("check"), at the construction
   of the node ("construct"), at the registry insert that ends __init__
   ("insert"), or back at its caller ("done").  A KnapsackInstance object is
   named by its position in `allocated`; the construction of a node, its
   children included, is taken as one step. *)

MaxCallers == 2

Callers == 1..MaxCallers

\* the key create computes for the root the callers ask for
caller_key(c) ==
    knapsack_hash(callers[c].knapsack_items, callers[c].knapsack_capacity,
                  0, <<>>, None)

\* the object the registry holds under key h: the one inserted last by a
\* caller, else the one a sequential create registered
registered_instance(h) ==
    IF \E c \in DOMAIN callers : callers[c].inserted > 0 /\ caller_key(c) = h
    THEN LET c == CHOOSE c \in DOMAIN callers :
                      /\ callers[c].inserted > 0
                      /\ caller_key(c) = h
                      /\ \A d \in DOMAIN callers :
                            callers[d].inserted <= callers[c].inserted
         IN  callers[c].instance
    ELSE CHOOSE i \in DOMAIN allocated : allocated[i] = h

\* the threads call KnapsackInstance.create(its, cap)
StartCallers(its, cap) ==
    /\ callers = <<>>
    /\ callers' = [c \in Callers |->
                      [pc |-> "check", knapsack_items |-> its,
                       knapsack_capacity |-> cap, node |-> None,
                       instance |-> 0, inserted |-> 0, result |-> 0]]
    /\ UNCHANGED <<knapsack_items_count, items, instance_by_hash,
                   distribution_by_hash, allocated, calls, last>>

\* create: `if knapsack_hash in cls.instance_by_hash: return ...`
CheckRegistry(c) ==
    /\ callers[c].pc = "check"
    /\ IF caller_key(c) \in DOMAIN instance_by_hash
       THEN /\ callers' = [callers EXCEPT
                              ![c].pc = "done",
                              ![c].result = registered_instance(caller_key(c))]
            /\ last' = [op |-> "create", fault |-> "none", result |-> caller_key(c)]
       ELSE /\ callers' = [callers EXCEPT ![c].pc = "construct"]
            /\ UNCHANGED last
    /\ UNCHANGED <<knapsack_items_count, items, instance_by_hash,
                   distribution_by_hash, allocated, calls>>

\* __init__ up to its last statement: dominance, children and aggregates; the
\* children are registered, the node itself is not yet
Construct(c) ==
    /\ callers[c].pc = "construct"
    /\ LET r == KnapsackInstance_init(
                    [pool |-> items, reg |-> instance_by_hash, alloc |-> allocated],
                    callers[c].knapsack_items, callers[c].knapsack_capacity,
                    caller_key(c), 0, <<>>, None)
       IN  /\ r.fault = "none"
           /\ items' = r.S.pool
           /\ allocated' = r.S.alloc
           /\ instance_by_hash' =
                 [k \in (DOMAIN r.S.reg \ {caller_key(c)})
                          \cup (DOMAIN instance_by_hash \cap {caller_key(c)}) |->
                     IF k = caller_key(c) THEN instance_by_hash[k] ELSE r.S.reg[k]]
           /\ callers' = [callers EXCEPT
                             ![c].pc = "insert",
                             ![c].node = Some(r.S.reg[caller_key(c)]),
                             ![c].instance = Len(allocated) + 1]
    /\ UNCHANGED <<knapsack_items_count, distribution_by_hash, calls, last>>

\* the last statement of __init__, `self.instance_by_hash[hash(self)] = self`,
\* and the return of the new object from create
Insert(c) ==
    /\ callers[c].pc = "insert"
    /\ instance_by_hash' =
          (caller_key(c) :> callers[c].node[1]) @@ instance_by_hash
    /\ callers' = [callers EXCEPT
                      ![c].pc = "done",
                      ![c].inserted =
                          1 + Cardinality({d \in Callers : callers[d].inserted > 0}),
                      ![c].result = callers[c].instance]
    /\ last' = [op |-> "create", fault |-> "none", result |-> caller_key(c)]
    /\ UNCHANGED <<knapsack_items_count, items, distribution_by_hash, allocated,
                   calls>>

NextConcurrent ==
    \/ /\ callers = <<>>
       /\ \E v \in 0..MaxValue, w \in 1..MaxWeight : NewItem(v, w)
    \/ /\ knapsack_items_count > 0
       /\ \E cap \in 0..MaxCapacity : StartCallers(AllItems, cap)
    \/ \E c \in DOMAIN callers : CheckRegistry(c)
    \/ \E c \in DOMAIN callers : Construct(c)
    \/ \E c \in DOMAIN callers : Insert(c)

SpecConcurrent == Init /\ [][NextConcurrent]_vars

\* C26: when several threads run create for the same key, __init__ is entered
\* at most once for that key, and once all of them have returned they hold the
\* same object.
C26_OneNodePerKeyUnderConcurrency ==
    \A c \in DOMAIN callers :
        /\ Cardinality({i \in DOMAIN allocated : allocated[i] = caller_key(c)}) <= 1
        /\ \A d \in DOMAIN callers :
              (callers[c].pc = "done" /\ callers[d].pc = "done")
              => callers[c].result = callers[d].result

----------------------------------------------------------------------------
(* Termination of the recursions (checked under SpecDist) *)

\* the greatest number of get_node_distribution invocations that are active at
\* once while node h is evaluated with the parameters P and nothing memoized:
\* the call itself, then either the baseline call of _search_for_witness on the
\* same node or the call on a child
RECURSIVE NestingDepth(_, _)
NestingDepth(h, P) ==
    IF instance_by_hash[h].is_terminal_node THEN 1
    ELSE 1 + Max({NestingDepth(c, P) : c \in Children(h)}
                 \cup (IF P.problem_type = DECISION /\ ~alpha_is_zero(P.alpha)
                       THEN {NestingDepth(h, baseline(Zero, P.value_threshold)),
                             NestingDepth(h, baseline(One, P.value_threshold))}
                       ELSE {}))

\* C27: every child has one eligible item fewer than its parent, so a node at
\* the end of a path from a root of n >= 1 items has committed at most n - 1
\* items; every create and get_node_distribution call has come back to its
\* caller, with at most (eligible items + 1) invocations nested in each other;
\* and the alpha = 0 baseline of a node runs no brute-force search, so it
\* starts no baseline of its own.
C27_RecursionsAreBounded ==
    /\ \A h \in DOMAIN instance_by_hash :
          \A c \in Children(h) :
              Len(instance_by_hash[c].knapsack_items)
                  = Len(instance_by_hash[h].knapsack_items) - 1
    /\ \A r \in Roots :
          \A d \in Descendants(r) :
              Len(instance_by_hash[r].knapsack_items) >= 1 =>
                  Len(instance_by_hash[d].standing_knapsack_items)
                      <= Len(instance_by_hash[r].knapsack_items) - 1
    /\ last.op = "create" => last.fault = "none"
    /\ last.op = "get_node_distribution" =>
          /\ last.fault \in {"none", "TypeError", "ValueError", "ZeroDivisionError",
                             "RuntimeError", "KeyError"}
          /\ last.P \in ValidParams =>
                NestingDepth(last.node, last.P)
                    <= Len(instance_by_hash[last.node].knapsack_items) + 1
          /\ (last.P \in ValidParams /\ last.P.problem_type = DECISION) =>
                \A d \in {Zero, One} :
                    brute_force_search(<<>>, last.node,
                                       baseline(d, last.P.value_threshold))
                        = [M |-> <<>>, fault |-> "none", ret |-> <<>>]

\* a DECISION call with alpha > 0 has returned for a root of three items with
\* a path of two edges below it
C27_Witness ==
    /\ last.op = "get_node_distribution"
    /\ last.fault = "none"
    /\ last.P.problem_type = DECISION
    /\ last.P.alpha = "1/2"
    /\ last.node \in Roots
    /\ Len(instance_by_hash[last.node].knapsack_items) = 3
    /\ \E d \in Descendants(last.node) :
          Len(instance_by_hash[d].standing_knapsack_items) = 2
    /\ NestingDepth(last.node, last.P) = 4

----------------------------------------------------------------------------
(* Bookkeeping of the nodes below a root (checked under SpecGraph) *)

\* the total value of a set of items
RECURSIVE TotalValue(_)
TotalValue(Sel) ==
    IF Sel = {} THEN 0
    ELSE LET i == CHOOSE i \in Sel : TRUE
         IN  value(i) + TotalValue(Sel \ {i})

\* C28: for every node d reachable from a root r, no item is listed twice, the
\* committed and the eligible items are disjoint and together are r's items,
\* the remaining capacity is r's capacity less the weight of the committed
\* items and is not negative, and the accumulated value is the value of the
\* committed items.
C28_NodeBookkeeping ==
    \A r \in Roots :
        \A d \in Descendants(r) :
            LET R == instance_by_hash[r]
                n == instance_by_hash[d]
                committed == Range(n.standing_knapsack_items)
                eligible == Range(n.knapsack_items)
            IN  /\ Cardinality(committed) = Len(n.standing_knapsack_items)
                /\ Cardinality(eligible) = Len(n.knapsack_items)
                /\ committed \cap eligible = {}
                /\ committed \cup eligible = Range(R.knapsack_items)
                /\ n.knapsack_capacity = R.knapsack_capacity - TotalWeight(committed)
                /\ n.knapsack_capacity >= 0
                /\ n.standing_value = TotalValue(committed)

\* a root of three items has a node below it with two committed items of
\* positive value and some capacity used
C28_Witness ==
    /\ last.op = "create"
    /\ \E r \in Roots :
          /\ Len(instance_by_hash[r].knapsack_items) = 3
          /\ \E d \in Descendants(r) :
                /\ Len(instance_by_hash[d].standing_knapsack_items) = 2
                /\ instance_by_hash[d].standing_value = 2
                /\ instance_by_hash[d].knapsack_capacity
                      < instance_by_hash[r].knapsack_capacity

----------------------------------------------------------------------------
(* The divisors of the incremental continuation (checked under SpecGraph) *)

\* the items of the children of node h that are non-dominated at h
NonDominatedChildItems(h) ==
    LET n == instance_by_hash[h]
    IN  {n.child_nodes[j][1] : j \in
            {k \in DOMAIN n.child_nodes :
                item_hash(n.child_nodes[k][1]) \in n.non_dominated_items}}

\* C29: every non-terminal node has a child reached by adding an item that is
\* non-dominated at that node, and for beta > 0 one such item of non-zero
\* transformed weight, so that neither divisor of the continuation is zero.
C29_NonTerminalHasNonDominatedChild ==
    \A h \in DOMAIN instance_by_hash :
        ~instance_by_hash[h].is_terminal_node =>
            /\ NonDominatedChildItems(h) # {}
            /\ \A b \in Betas \ {Zero}, g \in Gammas :
                   \E i \in NonDominatedChildItems(h) :
                       transformed_weight(i, b, g) # Zero

----------------------------------------------------------------------------
(* The optimal value of a root (checked under SpecGraph) *)

\* the optimum of the 0/1 knapsack problem on the items R and the capacity cap
KnapsackOptimum(R, cap) ==
    Max({TotalValue(Sel) : Sel \in {T \in SUBSET R : TotalWeight(T) <= cap}})

\* C30: the optimal value of every root is the largest total value of a subset
\* of its items whose total weight does not exceed its capacity.
C30_RootOptimalValueIsKnapsackOptimum ==
    \A r \in Roots :
        instance_by_hash[r].optimal_terminal_node_value
            = KnapsackOptimum(Range(instance_by_hash[r].knapsack_items),
                              instance_by_hash[r].knapsack_capacity)

====
